---- MODULE Spec2Model ----
(***************************************************************************)
(* State-machine model of the concentrated-liquidity pool of src/pair.py   *)
(* (class Pair) with the Tick and Position records of src/tick.py and      *)
(* src/position.py.                                                        *)
(*                                                                         *)
(* Arithmetic regime.  The program computes with Python floats; the model  *)
(* computes with fixed-point integers: a float quotient is rounded to the   *)
(* nearest unit, int() truncates toward zero:                              *)
(*   sqrt prices        are in units of 1/PriceScale                       *)
(*   prices             are in units of 1/PriceUnit                        *)
(*   swap amounts       are in units of 1/AmtScale                         *)
(*   fee growth         is  in units of 1/(AmtScale*FeeK*LiqUnit)          *)
(*   position fees and token balances are in units of 1/(AmtScale*FeeK)    *)
(* Liquidity is the program's integer.  Every liquidity the model produces *)
(* is a multiple of LiqUnit that divides FeeK*LiqUnit, so fee growth and   *)
(* position fees are exact; only price movements are rounded.              *)
(***************************************************************************)
EXTENDS Integers, Sequences, FiniteSets, TLC

\* ------------------------------------------------------------------------
\* Program configuration (constructor arguments and fixed fields)
\* ------------------------------------------------------------------------
std_increment_distance == 9000000
exp_at_price_one == -6
tick_spacing == 100
\* fee_tier = FeeNum / FeeDen, a fraction in [0,1)
FeeNum == 1
FeeDen == 2
token_x == "x"
token_y == "y"

\* ------------------------------------------------------------------------
\* Fixed-point scales
\* ------------------------------------------------------------------------
PriceScale == 1000
PriceUnit == 10000000
AmtScale == 100
LiqUnit == 100
FeeK == 60

\* ------------------------------------------------------------------------
\* Bounds of the explored inputs
\* ------------------------------------------------------------------------
MaxOps == 3
\* calls made when the callers keep the preconditions
MaxValidOps == 4
MaxLPOps == 5
MaxObjs == 2
\* passes of the swap loop followed within one swap call
MaxPasses == 6
\* tick_by_tick_spacing is tried on the precise ticks -MaxPrecise..MaxPrecise
MaxPrecise == 250

\* ------------------------------------------------------------------------
\* Arithmetic helpers
\* ------------------------------------------------------------------------
Abs(a) == IF a < 0 THEN -a ELSE a

Max(a, b) == IF a >= b THEN a ELSE b

\* Quotient truncated toward zero (Python int(a/b) for b # 0)
TDiv(a, b) ==
    IF (a >= 0) = (b > 0) THEN Abs(a) \div Abs(b) ELSE -(Abs(a) \div Abs(b))

\* Python round(a/b): nearest integer, ties to even
RoundDiv(a, b) ==
    LET n == IF b < 0 THEN -a ELSE a
        d == Abs(b)
        f == n \div d
        r == n % d
    IN IF 2 * r < d THEN f
       ELSE IF 2 * r > d THEN f + 1
       ELSE IF f % 2 = 0 THEN f ELSE f + 1

\* A float quotient a/b in fixed point: rounded to nearest
FDiv(a, b) == RoundDiv(a, b)

RECURSIVE Pow10(_)
Pow10(n) == IF n <= 0 THEN 1 ELSE 10 * Pow10(n - 1)

\* Integer square root (floor)
ISqrt(n) ==
    IF n <= 0 THEN 0
    ELSE LET h == CHOOSE a \in 0..63 :
                      (64 * a) * (64 * a) <= n /\ n < (64 * a + 64) * (64 * a + 64)
         IN CHOOSE r \in (64 * h)..(64 * h + 63) :
                      r * r <= n /\ n < (r + 1) * (r + 1)

\* x * 10^e in integers, truncating when e < 0
Scale10(x, e) == IF e >= 0 THEN x * Pow10(e) ELSE TDiv(x, Pow10(-e))

\* ------------------------------------------------------------------------
\* Price/tick codec (prices in PriceUnit, sqrt prices in PriceScale)
\* ------------------------------------------------------------------------
\* sqrt of a price, and the square of a sqrt price, in fixed point
SqrtOfPrice(price) == ISqrt(price \div (PriceUnit \div (PriceScale * PriceScale)))

PriceOfSqrt(sp) == sp * sp * (PriceUnit \div (PriceScale * PriceScale))

\* Exponent (relative to PriceUnit = 10^7) of a power of ten
Unit10(e) == Scale10(1, e + 7)

tick_to_sqrt_price(tick) ==
    LET curr_increment_lvl == Abs(tick) \div std_increment_distance
        exp_at_curr_tick ==
            IF tick > 0 THEN exp_at_price_one + curr_increment_lvl
            ELSE exp_at_price_one - (curr_increment_lvl + 1)
        curr_additive_increment == Unit10(exp_at_curr_tick)
        num_additive_ticks ==
            IF tick > 0
            THEN tick - (curr_increment_lvl * std_increment_distance)
            ELSE (-tick) - (curr_increment_lvl * std_increment_distance)
        price ==
            IF tick > 0
            THEN Unit10(curr_increment_lvl)
                 + Scale10(num_additive_ticks, exp_at_curr_tick + 7)
            ELSE Unit10(-curr_increment_lvl)
                 - Scale10(num_additive_ticks, exp_at_curr_tick + 7)
    IN << SqrtOfPrice(price), SqrtOfPrice(price + curr_additive_increment) >>

\* The first i in range(50) with 10^i < price <= 10^(i+1); 50 when the loop
\* runs off the list without a match
RECURSIVE LevelAbove(_, _)
LevelAbove(price, i) ==
    IF i >= 49 THEN 50
    ELSE IF price > Unit10(i) /\ price <= Unit10(i + 1) THEN i
    ELSE LevelAbove(price, i + 1)

\* The first i in range(50) with 10^-i > price >= 10^-(i+1)
RECURSIVE LevelBelow(_, _)
LevelBelow(price, i) ==
    IF i >= 49 \/ price <= 0 THEN 50
    ELSE IF price < Unit10(-i) /\ price >= Unit10(-(i + 1)) THEN i
    ELSE LevelBelow(price, i + 1)

\* TRUE when sqrt_price_to_tick leaves the loop without binding price_level
sqrt_price_to_tick_raises(sqrt_price) ==
    LET price == PriceOfSqrt(sqrt_price)
    IN IF price = PriceUnit THEN FALSE
       ELSE IF price > PriceUnit THEN LevelAbove(price, 0) = 50
       ELSE LevelBelow(price, 0) = 50

sqrt_price_to_tick(sqrt_price) ==
    LET price == PriceOfSqrt(sqrt_price)
    IN IF price = PriceUnit THEN 0
       ELSE IF price > PriceUnit
       THEN LET price_level_index == LevelAbove(price, 0)
                price_level == Unit10(price_level_index)
                exp_at_curr_tick == price_level_index - 6
                curr_additive_increment == Unit10(exp_at_curr_tick)
                tick_level == price_level_index * std_increment_distance
                additive_ticks ==
                    RoundDiv(price - price_level, curr_additive_increment)
            IN tick_level + additive_ticks
       ELSE LET price_level_index == LevelBelow(price, 0)
                price_level == Unit10(-price_level_index)
                exp_at_curr_tick == -1 * (price_level_index + 7)
                curr_additive_increment == Unit10(exp_at_curr_tick)
                tick_level == (-price_level_index) * std_increment_distance
                additive_ticks ==
                    RoundDiv(price_level - price, curr_additive_increment)
            IN tick_level - additive_ticks

\* ------------------------------------------------------------------------
\* The codec on exact prices.  A price is a decimal number m * 10^e (the
\* prices of ticks have at most 8 significant digits, a float carries 15).
\* The swap arithmetic above works on sqrt prices in PriceScale; the codec
\* itself is followed here digit by digit, over all 50 price levels.
\* ------------------------------------------------------------------------
Dec(m, e) == [m |-> m, e |-> e]

Min(a, b) == IF a <= b THEN a ELSE b

Sign(n) == IF n > 0 THEN 1 ELSE IF n < 0 THEN -1 ELSE 0

\* the mantissa of a at the exponent e0 <= a.e
AlignTo(a, e0) == a.m * Pow10(a.e - e0)

DecAdd(a, b) == Dec(AlignTo(a, Min(a.e, b.e)) + AlignTo(b, Min(a.e, b.e)), Min(a.e, b.e))

DecSub(a, b) == Dec(AlignTo(a, Min(a.e, b.e)) - AlignTo(b, Min(a.e, b.e)), Min(a.e, b.e))

\* number of decimal digits of m > 0
Digits(m) == CHOOSE k \in 1..10 : Pow10(k - 1) <= m /\ (k = 10 \/ m < Pow10(k))

\* -1, 0, 1 as a < b, a = b, a > b (a, b >= 0)
DecCmp(a, b) ==
    IF a.m = 0 \/ b.m = 0 THEN Sign(a.m - b.m)
    ELSE IF Digits(a.m) + a.e # Digits(b.m) + b.e
         THEN Sign((Digits(a.m) + a.e) - (Digits(b.m) + b.e))
    ELSE Sign(AlignTo(a, Min(a.e, b.e)) - AlignTo(b, Min(a.e, b.e)))

\* round(a / 10^e)
DecRound(a, e) ==
    IF a.e >= e THEN a.m * Pow10(a.e - e) ELSE RoundDiv(a.m, Pow10(e - a.e))

\* "price" of tick_to_sqrt_price (lines 506-520), whose square root the
\* function returns first
tick_to_price(tick) ==
    LET curr_increment_lvl == Abs(tick) \div std_increment_distance
        exp_at_curr_tick ==
            IF tick > 0 THEN exp_at_price_one + curr_increment_lvl
            ELSE exp_at_price_one - (curr_increment_lvl + 1)
        num_additive_ticks ==
            IF tick > 0
            THEN tick - (curr_increment_lvl * std_increment_distance)
            ELSE (-tick) - (curr_increment_lvl * std_increment_distance)
    IN IF tick > 0
       THEN DecAdd(Dec(1, curr_increment_lvl),
                   Dec(num_additive_ticks, exp_at_curr_tick))
       ELSE DecSub(Dec(1, -curr_increment_lvl),
                   Dec(num_additive_ticks, exp_at_curr_tick))

\* "price = sqrt_price**2" for sqrt_price = price**(1/2): the price again, up
\* to the rounding of the two float operations, which is smaller than any
\* tick step.  err is the sign of that rounding error; a comparison of the
\* squared value with a power of ten sees it when the exact values are equal.
SquaredCmp(price, err, pl) ==
    IF DecCmp(price, pl) # 0 THEN DecCmp(price, pl) ELSE err

\* The loops over price_levels = [10**i for i in range(50)] (lines 528-533)
\* and [10**-i ...] (lines 541-546): the index found; "IndexError" when
\* price_levels[i+1] is read at i = 49; "UnboundLocalError" when the loop
\* ends without a match and price_level_index is read
RECURSIVE LevelAboveExact(_, _, _)
LevelAboveExact(price, err, i) ==
    IF i > 49 THEN [kind |-> "UnboundLocalError", idx |-> 0]
    ELSE IF SquaredCmp(price, err, Dec(1, i)) > 0
         THEN IF i + 1 > 49 THEN [kind |-> "IndexError", idx |-> 0]
              ELSE IF SquaredCmp(price, err, Dec(1, i + 1)) <= 0
                   THEN [kind |-> "level", idx |-> i]
                   ELSE LevelAboveExact(price, err, i + 1)
         ELSE LevelAboveExact(price, err, i + 1)

RECURSIVE LevelBelowExact(_, _, _)
LevelBelowExact(price, err, i) ==
    IF i > 49 THEN [kind |-> "UnboundLocalError", idx |-> 0]
    ELSE IF SquaredCmp(price, err, Dec(1, -i)) < 0
         THEN IF i + 1 > 49 THEN [kind |-> "IndexError", idx |-> 0]
              ELSE IF SquaredCmp(price, err, Dec(1, -(i + 1))) >= 0
                   THEN [kind |-> "level", idx |-> i]
                   ELSE LevelBelowExact(price, err, i + 1)
         ELSE LevelBelowExact(price, err, i + 1)

\* sqrt_price_to_tick (lines 523-553) on the square root of price:
\* [exc |-> the exception raised or "", tick |-> the tick returned]
sqrt_price_to_tick_exact(price, err) ==
    IF SquaredCmp(price, err, Dec(1, 0)) = 0 THEN [exc |-> "", tick |-> 0]
    ELSE IF SquaredCmp(price, err, Dec(1, 0)) > 0
    THEN LET found == LevelAboveExact(price, err, 0)
             price_level_index == found.idx
             exp_at_curr_tick == price_level_index - 6
             tick_level == price_level_index * std_increment_distance
             additive_ticks ==
                 DecRound(DecSub(price, Dec(1, price_level_index)),
                          exp_at_curr_tick)
         IN IF found.kind # "level" THEN [exc |-> found.kind, tick |-> 0]
            ELSE [exc |-> "", tick |-> tick_level + additive_ticks]
    ELSE LET found == LevelBelowExact(price, err, 0)
             price_level_index == found.idx
             exp_at_curr_tick == -1 * (price_level_index + 7)
             tick_level == (-price_level_index) * std_increment_distance
             additive_ticks ==
                 DecRound(DecSub(Dec(1, -price_level_index), price),
                          exp_at_curr_tick)
         IN IF found.kind # "level" THEN [exc |-> found.kind, tick |-> 0]
            ELSE [exc |-> "", tick |-> tick_level - additive_ticks]

\* int(precise_tick / tick_spacing) truncates toward zero, and an int is
\* never a non-integer, so the "tick_step % 1 != 0" branch is dead
tick_by_tick_spacing(precise_tick) ==
    LET tick_step == TDiv(precise_tick, tick_spacing)
    IN IF precise_tick >= 0 THEN tick_step * tick_spacing
       ELSE IF tick_step % 1 # 0 THEN (tick_step - 1) * tick_spacing
       ELSE tick_step * tick_spacing

\* ------------------------------------------------------------------------
\* State
\* ------------------------------------------------------------------------
VARIABLES
    curr_sqrt_price,       \* Pair.curr_sqrt_price
    curr_tick_idx,         \* Pair.curr_tick_idx
    liquidity,             \* Pair.liquidity
    fee_growth_global_x,   \* Pair.fee_growth_global_x
    fee_growth_global_y,   \* Pair.fee_growth_global_y
    token_x_balance,       \* Pair.token_x_balance
    token_y_balance,       \* Pair.token_y_balance
    ticks,                 \* the keys of Pair.ticks (kept sorted by the code)
    all_ticks,             \* Pair.all_ticks: tick index -> Tick object
    positions,             \* Pair.positions: key -> Position object (an index of objs)
    objs,                  \* the Position objects ever created; callers hold them
    pc,                    \* where the running swap call is: "idle", "x_loop", "y_loop"
    call,                  \* locals of the running swap call
    ret,                   \* how the last call ended
    budget,                \* number of calls the callers may still make
    fees_charged,          \* <<x, y>>: fees charged to swappers by committed swaps
    fees_withdrawn,        \* <<x, y>>: fees returned by withdraw_fees
    reverted,              \* a swap has gone through revert_swap
    before,                \* what the pool showed before the add_liquidity call that
                           \* has just returned (<< >> after any other call)
    up_to_date             \* the Position objects that went through collect_fees
                           \* since the last swap call started

\* Pair.ticks[t] and Pair.all_ticks[t] are the same Tick object whenever t is a
\* key of Pair.ticks (src/pair.py:136,152), so one store of Tick records
\* (all_ticks) and the key set of the active map (ticks) carry both maps.

poolvars == << curr_sqrt_price, curr_tick_idx, liquidity, fee_growth_global_x,
               fee_growth_global_y, token_x_balance, token_y_balance, ticks,
               all_ticks, positions, objs >>

vars == << curr_sqrt_price, curr_tick_idx, liquidity, fee_growth_global_x,
           fee_growth_global_y, token_x_balance, token_y_balance, ticks,
           all_ticks, positions, objs, pc, call, ret, budget, fees_charged,
           fees_withdrawn, reverted, before, up_to_date >>

Tick(idx, liquidity_net, liquidity_gross, fee_growth_outside_x, fee_growth_outside_y) ==
    [idx |-> idx, liquidity_net |-> liquidity_net,
     liquidity_gross |-> liquidity_gross,
     fee_growth_outside_x |-> fee_growth_outside_x,
     fee_growth_outside_y |-> fee_growth_outside_y]

\* A Position keeps its two Tick objects; the code reads only their idx
Position(owner, liq, lower_tick, upper_tick, fee_growth_inside_x, fee_growth_inside_y) ==
    [owner |-> owner, liquidity |-> liq, lower_tick |-> lower_tick,
     upper_tick |-> upper_tick, fee_growth_inside_x |-> fee_growth_inside_x,
     fee_growth_inside_y |-> fee_growth_inside_y, fees_x |-> 0, fees_y |-> 0]

PositionKey(position) ==
    << position.owner, position.lower_tick, position.upper_tick >>

\* ------------------------------------------------------------------------
\* Tick index
\* ------------------------------------------------------------------------
\* list(self.ticks.keys()) of the sorted dict: the keys in increasing order
RECURSIVE SortedKeys(_)
SortedKeys(S) ==
    IF S = {} THEN << >>
    ELSE LET m == CHOOSE k \in S : \A j \in S : k <= j
         IN << m >> \o SortedKeys(S \ {m})

NoTick == [kind |-> "None", idx |-> 0]
IndexError == [kind |-> "IndexError", idx |-> 0]
Found(k) == [kind |-> "tick", idx |-> k]

\* The loop of find_next_tick over the sorted keys.  On key == tick_idx the
\* code indexes keys[position + 1] (IndexError past the end) or
\* keys[position - 1] (Python index -1 is the last key).
find_next_tick(T, tick_idx, higher) ==
    LET keys == SortedKeys(T)
        n == Len(keys)
    IN IF tick_idx \in T
       THEN LET position == CHOOSE i \in 1..n : keys[i] = tick_idx
            IN IF higher
               THEN IF position = n THEN IndexError
                    ELSE Found(keys[position + 1])
               ELSE IF position = 1 THEN Found(keys[n])
                    ELSE Found(keys[position - 1])
       ELSE IF higher
            THEN IF \E k \in T : k > tick_idx
                 THEN Found(CHOOSE k \in T :
                         k > tick_idx /\ \A j \in T : j > tick_idx => k <= j)
                 ELSE NoTick
            ELSE IF \E k \in T : k < tick_idx
                 THEN Found(CHOOSE k \in T :
                         k < tick_idx /\ \A j \in T : j < tick_idx => k >= j)
                 ELSE NoTick

\* ------------------------------------------------------------------------
\* Fee accounting.  T: active keys, A: Tick store, c: curr_tick_idx,
\* gx, gy: fee_growth_global_x/y
\* ------------------------------------------------------------------------
\* a fee_growth_outside that hands back what an active tick already holds
fee_growth_outside_kept(T, A, c, gx, gy, tick_idx) ==
    IF tick_idx \notin T
    THEN IF c >= tick_idx THEN << gx, gy >> ELSE << 0, 0 >>
    ELSE << A[tick_idx].fee_growth_outside_x, A[tick_idx].fee_growth_outside_y >>

fee_growth_outside(T, A, c, gx, gy, tick_idx) ==
    IF tick_idx \notin T
    THEN IF c >= tick_idx THEN << gx, gy >> ELSE << 0, 0 >>
    ELSE << gx - A[tick_idx].fee_growth_outside_x,
            gy - A[tick_idx].fee_growth_outside_y >>

fee_within_range(c, gx, gy, lower_tick, upper_tick) ==
    LET fee_below_lower ==
            IF c >= lower_tick.idx
            THEN << lower_tick.fee_growth_outside_x,
                    lower_tick.fee_growth_outside_y >>
            ELSE << gx - lower_tick.fee_growth_outside_x,
                    gy - lower_tick.fee_growth_outside_y >>
        fee_above_upper ==
            IF c >= upper_tick.idx
            THEN << gx - upper_tick.fee_growth_outside_x,
                    gy - upper_tick.fee_growth_outside_y >>
            ELSE << upper_tick.fee_growth_outside_x,
                    upper_tick.fee_growth_outside_y >>
    IN << gx - fee_above_upper[1] - fee_below_lower[1],
          gy - fee_above_upper[2] - fee_below_lower[2] >>

\* fee growth (per unit of liquidity) times a liquidity, as a fee amount
FeeOf(growth, liq) == FDiv(growth * liq, LiqUnit)

get_fees(A, c, gx, gy, position) ==
    LET fwr == fee_within_range(c, gx, gy, A[position.lower_tick],
                                A[position.upper_tick])
    IN << FeeOf(fwr[1] - position.fee_growth_inside_x, position.liquidity),
          FeeOf(fwr[2] - position.fee_growth_inside_y, position.liquidity) >>

\* a collect_fees that does not move the position's fee_growth_inside
collect_fees_keeps_inside(A, c, gx, gy, position) ==
    [position EXCEPT !.fees_x = @ + get_fees(A, c, gx, gy, position)[1],
                     !.fees_y = @ + get_fees(A, c, gx, gy, position)[2]]

\* a collect_fees that returns early on a position without liquidity
collect_fees_skips_empty(A, c, gx, gy, position) ==
    IF position.liquidity = 0 THEN position
    ELSE [position EXCEPT
              !.fee_growth_inside_x =
                  fee_within_range(c, gx, gy, A[position.lower_tick],
                                   A[position.upper_tick])[1],
              !.fee_growth_inside_y =
                  fee_within_range(c, gx, gy, A[position.lower_tick],
                                   A[position.upper_tick])[2],
              !.fees_x = @ + get_fees(A, c, gx, gy, position)[1],
              !.fees_y = @ + get_fees(A, c, gx, gy, position)[2]]

\* The Position object after collect_fees
collect_fees(A, c, gx, gy, position) ==
    LET fees == get_fees(A, c, gx, gy, position)
        fwr == fee_within_range(c, gx, gy, A[position.lower_tick],
                                A[position.upper_tick])
    IN [position EXCEPT !.fee_growth_inside_x = fwr[1],
                        !.fee_growth_inside_y = fwr[2],
                        !.fees_x = @ + fees[1],
                        !.fees_y = @ + fees[2]]

\* Token amounts (in AmtScale) for a liquidity over a range at sqrt price p_c
liquidity_to_tokens(liq, lower_tick_idx, upper_tick_idx, p_c) ==
    LET p_b == tick_to_sqrt_price(upper_tick_idx)[1]
        p_a == tick_to_sqrt_price(lower_tick_idx)[1]
        delta_x == FDiv(liq * (p_b - p_c) * PriceScale * AmtScale, p_b * p_c)
        delta_y == FDiv(liq * (p_c - p_a) * AmtScale, PriceScale)
    IN << Max(delta_x, 0), Max(delta_y, 0) >>

deduct_fees(amount_in) ==
    LET fees_deducted == AmtScale * TDiv(amount_in * FeeNum, FeeDen * AmtScale)
    IN << amount_in - fees_deducted, fees_deducted >>

add_fees(amount_used_for_swap) ==
    LET amount_used == FDiv(amount_used_for_swap * FeeDen, FeeDen - FeeNum)
    IN << amount_used, amount_used - amount_used_for_swap >>

\* fees / liquidity, as fee growth
GrowthOf(fees, liq) == FDiv(fees * FeeK * LiqUnit, liq)

\* ------------------------------------------------------------------------
\* Inputs the callers draw from
\* ------------------------------------------------------------------------
InitSqrtPrices == {1000}
\* add_liquidity calls << owner, liquidity, lower_tick_idx, upper_tick_idx >>.
\* The tick indices -396000, -199000, 0, 20100, 40400 have the sqrt prices
\* 0.98, 0.99, 1.00, 1.01, 1.02.  The last three calls break a precondition
\* of the interface: zero liquidity, an index that is not a multiple of
\* tick_spacing, lower >= upper.
AddChoices ==
    { << "a", 100, -396000, 40400 >>,
      << "a", 100, -199000, 20100 >>,
      << "a", 100, 0, 20100 >>,
      << "a", 0, -199000, 20100 >>,
      << "a", 100, 50, 20100 >>,
      << "a", 100, 20100, -199000 >> }
\* remove_liquidity amounts; 0 is not positive and 200 is more than a
\* position of 100 holds
RemoveChoices == {0, 100, 200}
\* swap calls << token_in_addr, sqrt_price_limit, simulate >>: without a
\* limit (0 going down, 10000 going up), simulated, and with the limit at the
\* first boundary (0.99 going down, 1.01 going up)
SwapChoices ==
    { << "x", 0, FALSE >>, << "x", 0, TRUE >>, << "x", 990, FALSE >>,
      << "y", 10000, FALSE >>, << "y", 10000, TRUE >>, << "y", 1010, FALSE >> }
\* whole-token swap amounts
AmountChoices == {0, 2, 5}
\* a token_in_addr that is neither token of the pool
UnknownTokens == {"z"}

NoCall == [token_in_addr |-> "", amount_in |-> 0, sqrt_price_limit |-> 0,
           simulate |-> FALSE, amount_out |-> 0, amount_remaining |-> 0,
           next_tick |-> 0, crossed |-> << >>, fees |-> 0, passes |-> 0,
           growth |-> << >>,
           original_state |-> << >>, pre |-> << >>]

\* op, args: the call; exc: the exception the caller saw ("" when the call
\* returned); failed: a failure happened inside the call; value: the returned
\* tuple, << >> for None; crossed: the ticks a swap crossed, in order;
\* growth: << fee_growth_global_x, fee_growth_global_y >> at the start of a
\* swap and after each of its passes
Ret(op, args, exc, failed, value, crossed, growth) ==
    [op |-> op, args |-> args, exc |-> exc, failed |-> failed,
     value |-> value, crossed |-> crossed, growth |-> growth]

\* What a round trip has to give back: pool.liquidity, the active ticks with
\* their net and gross liquidity, the positions map with the liquidity of
\* each position, the token balances
PoolView(liq, T, A, P, O, bx, by) ==
    [liquidity |-> liq,
     ticks |-> [t \in T |-> << A[t].liquidity_net, A[t].liquidity_gross >>],
     positions |-> [k \in DOMAIN P |-> O[P[k]].liquidity],
     token_x_balance |-> bx, token_y_balance |-> by]

CurrentView ==
    PoolView(liquidity, ticks, all_ticks, positions, objs, token_x_balance,
             token_y_balance)

\* ------------------------------------------------------------------------
\* Pair.__init__
\* ------------------------------------------------------------------------
InitPool ==
    /\ curr_sqrt_price \in InitSqrtPrices
    /\ curr_tick_idx = sqrt_price_to_tick(curr_sqrt_price)
    /\ liquidity = 0
    /\ fee_growth_global_x = 0
    /\ fee_growth_global_y = 0
    /\ token_x_balance = 0
    /\ token_y_balance = 0
    /\ ticks = {}
    /\ all_ticks = << >>
    /\ positions = << >>
    /\ objs = << >>
    /\ pc = "idle"
    /\ call = NoCall
    /\ ret = Ret("init", << >>, "", FALSE, << >>, << >>, << >>)
    /\ fees_charged = << 0, 0 >>
    /\ fees_withdrawn = << 0, 0 >>
    /\ reverted = FALSE
    /\ before = << >>
    /\ up_to_date = {}

Init == InitPool /\ budget = MaxOps

\* ------------------------------------------------------------------------
\* Pair.add_liquidity
\* ------------------------------------------------------------------------
\* the Tick store after "if idx not in self.ticks: create ... else: update"
TouchTick(T, A, c, gx, gy, idx, dnet, dgross) ==
    IF idx \notin T
    THEN LET fgo == fee_growth_outside(T, A, c, gx, gy, idx)
         IN (idx :> Tick(idx, dnet, dgross, fgo[1], fgo[2])) @@ A
    ELSE [A EXCEPT ![idx].liquidity_net = @ + dnet,
                   ![idx].liquidity_gross = @ + dgross]

AddLiquidity(owner, liq, lower_tick_idx, upper_tick_idx) ==
    LET c == curr_tick_idx
        gx == fee_growth_global_x
        gy == fee_growth_global_y
        liquidity1 ==
            IF c >= lower_tick_idx /\ c < upper_tick_idx
            THEN liquidity + liq ELSE liquidity
        key == << owner, lower_tick_idx, upper_tick_idx >>
        known == key \in DOMAIN positions
        \* Both branches of the code (key known with both ticks active, or
        \* not) settle the position, grow it and adjust the two ticks; they
        \* differ only in creating what is missing.  Boundary ticks, lower
        \* first and then upper:
        A1 == TouchTick(ticks, all_ticks, c, gx, gy, lower_tick_idx, liq, liq)
        T1 == ticks \cup {lower_tick_idx}
        A2 == TouchTick(T1, A1, c, gx, gy, upper_tick_idx, -liq, liq)
        T2 == T1 \cup {upper_tick_idx}
        \* the position: settled through all_ticks, then grown; or created
        settled == collect_fees(A2, c, gx, gy, objs[positions[key]])
        fwr == fee_within_range(c, gx, gy, A2[lower_tick_idx],
                                A2[upper_tick_idx])
        created == Position(owner, liq, lower_tick_idx, upper_tick_idx,
                            fwr[1], fwr[2])
        delta == liquidity_to_tokens(liq, lower_tick_idx, upper_tick_idx,
                                     curr_sqrt_price)
    IN /\ pc = "idle"
       /\ known \/ Len(objs) < MaxObjs
       /\ liquidity' = liquidity1
       /\ ticks' = T2
       /\ all_ticks' = A2
       /\ IF known
          THEN /\ objs' = [objs EXCEPT ![positions[key]] =
                              [settled EXCEPT !.liquidity = @ + liq]]
               /\ positions' = positions
          ELSE /\ objs' = Append(objs, created)
               /\ positions' = (key :> (Len(objs) + 1)) @@ positions
       /\ token_x_balance' = token_x_balance + delta[1] * FeeK
       /\ token_y_balance' = token_y_balance + delta[2] * FeeK
       /\ ret' = Ret("add_liquidity",
                     << owner, liq, lower_tick_idx, upper_tick_idx >>,
                     "", FALSE, << >>, << >>, << >>)
       /\ before' = CurrentView
       /\ up_to_date' = IF known THEN up_to_date \cup {positions[key]} ELSE up_to_date
       /\ budget > 0
       /\ budget' = budget - 1
       /\ UNCHANGED << curr_sqrt_price, curr_tick_idx, fee_growth_global_x,
                       fee_growth_global_y, pc, call, fees_charged,
                       fees_withdrawn, reverted >>

\* ------------------------------------------------------------------------
\* Pair.remove_liquidity
\* ------------------------------------------------------------------------
\* del d[k]
DelKey(d, k) ==
    IF DOMAIN d \ {k} = {} THEN << >>
    ELSE [j \in DOMAIN d \ {k} |-> d[j]]

\* "self.ticks[idx].liquidity_net -= dnet; ...gross -= liq; update_tick_map(idx)"
\* on active keys T and store A (idx is a key of T)
UntouchTick(A, idx, dnet, dgross) ==
    [A EXCEPT ![idx].liquidity_net = @ - dnet,
              ![idx].liquidity_gross = @ - dgross]

update_tick_map(T, A, tick_idx) ==
    IF A[tick_idx].liquidity_gross = 0 THEN T \ {tick_idx} ELSE T

\* remove_liquidity(position, liq), statement by statement, on a record s of
\* the fields it writes; s.exc names the exception that ended the call early
\* ("" while it runs), s.collected that collect_fees(position) has run.
\* lines 194-196: out of the active liquidity if the price is in range
RemoveActive(s, position, liq) ==
    IF curr_tick_idx >= position.lower_tick
       /\ curr_tick_idx < position.upper_tick
    THEN [s EXCEPT !.liquidity = @ - liq] ELSE s

\* lines 200-209: delete the map entry, or settle and shrink the position
RemovePosition(s, i, liq) ==
    LET position == objs[i]
        fees == get_fees(all_ticks, curr_tick_idx, fee_growth_global_x,
                         fee_growth_global_y, position)
    IN IF position.liquidity = liq /\ fees[1] = 0 /\ fees[2] = 0
       THEN IF PositionKey(position) \in DOMAIN positions
            THEN [s EXCEPT !.positions = DelKey(positions, PositionKey(position))]
            ELSE [s EXCEPT !.exc = "KeyError"]
       ELSE [s EXCEPT !.objs[i] =
                [collect_fees(all_ticks, curr_tick_idx, fee_growth_global_x,
                              fee_growth_global_y, position)
                    EXCEPT !.liquidity = @ - liq],
                      !.collected = TRUE]

\* lines 211-213 and 215-217: one boundary tick
RemoveFromTick(s, idx, dnet, liq) ==
    IF s.exc # "" THEN s
    ELSE IF idx \notin s.ticks THEN [s EXCEPT !.exc = "KeyError"]
    ELSE [s EXCEPT !.all_ticks = UntouchTick(@, idx, dnet, liq),
                   !.ticks = update_tick_map(
                                 @, UntouchTick(s.all_ticks, idx, dnet, liq), idx)]

\* lines 218-222: the token balances
RemoveTokens(s, delta) ==
    IF s.exc # "" THEN s
    ELSE [s EXCEPT !.bx = @ - delta[1] * FeeK, !.by = @ - delta[2] * FeeK]

\* The stages in order, each applied to the value the stage before it left
remove_liquidity(i, liq) ==
    CHOOSE s5 \in
        { RemoveTokens(s4, liquidity_to_tokens(liq, objs[i].lower_tick,
                                               objs[i].upper_tick,
                                               curr_sqrt_price)) :
          s4 \in
            { RemoveFromTick(s3, objs[i].upper_tick, -liq, liq) :
              s3 \in
                { RemoveFromTick(s2, objs[i].lower_tick, liq, liq) :
                  s2 \in
                    { RemovePosition(s1, i, liq) :
                      s1 \in
                        { RemoveActive(
                              [liquidity |-> liquidity, positions |-> positions,
                               objs |-> objs, ticks |-> ticks,
                               all_ticks |-> all_ticks,
                               bx |-> token_x_balance, by |-> token_y_balance,
                               exc |-> "", collected |-> FALSE],
                              objs[i], liq) } } } } } : TRUE

RemoveLiquidity(i, liq) ==
    \E s \in {remove_liquidity(i, liq)} :
       /\ pc = "idle"
       /\ liquidity' = s.liquidity
       /\ positions' = s.positions
       /\ objs' = s.objs
       /\ ticks' = s.ticks
       /\ all_ticks' = s.all_ticks
       /\ token_x_balance' = s.bx
       /\ token_y_balance' = s.by
       /\ ret' = Ret("remove_liquidity", << i, liq >>, s.exc, s.exc # "",
                     << >>, << >>, << >>)
       /\ before' = << >>
       /\ up_to_date' = IF s.collected THEN up_to_date \cup {i} ELSE up_to_date
       /\ budget > 0
       /\ budget' = budget - 1
       /\ UNCHANGED << curr_sqrt_price, curr_tick_idx, fee_growth_global_x,
                       fee_growth_global_y, pc, call, fees_charged,
                       fees_withdrawn, reverted >>

\* ------------------------------------------------------------------------
\* Pair.withdraw_fees
\* ------------------------------------------------------------------------
WithdrawFees(i) ==
    LET settled == collect_fees(all_ticks, curr_tick_idx, fee_growth_global_x,
                                fee_growth_global_y, objs[i])
        fees_x == settled.fees_x
        fees_y == settled.fees_y
        zeroed == [settled EXCEPT !.fees_x = 0, !.fees_y = 0]
        key == PositionKey(zeroed)
        raises == zeroed.liquidity = 0 /\ key \notin DOMAIN positions
    IN /\ pc = "idle"
       /\ objs' = [objs EXCEPT ![i] = zeroed]
       /\ positions' = IF zeroed.liquidity = 0 /\ ~raises
                       THEN DelKey(positions, key) ELSE positions
       /\ token_x_balance' = IF raises THEN token_x_balance
                             ELSE token_x_balance - fees_x
       /\ token_y_balance' = IF raises THEN token_y_balance
                             ELSE token_y_balance - fees_y
       /\ fees_withdrawn' = IF raises THEN fees_withdrawn
                            ELSE << fees_withdrawn[1] + fees_x,
                                    fees_withdrawn[2] + fees_y >>
       /\ ret' = Ret("withdraw_fees", << i >>,
                     IF raises THEN "KeyError" ELSE "", raises,
                     IF raises THEN << >> ELSE << fees_x, fees_y >>, << >>,
                     << >>)
       /\ before' = << >>
       /\ up_to_date' = up_to_date \cup {i}
       /\ budget > 0
       /\ budget' = budget - 1
       /\ UNCHANGED << curr_sqrt_price, curr_tick_idx, liquidity,
                       fee_growth_global_x, fee_growth_global_y, ticks,
                       all_ticks, pc, call, fees_charged, reverted >>

\* ------------------------------------------------------------------------
\* Pair.collect_fees, called by a holder of the Position object
\* ------------------------------------------------------------------------
CollectFees(i) ==
    /\ pc = "idle"
    /\ objs' = [objs EXCEPT ![i] =
                   collect_fees(all_ticks, curr_tick_idx, fee_growth_global_x,
                                fee_growth_global_y, objs[i])]
    /\ ret' = Ret("collect_fees", << i >>, "", FALSE,
                  get_fees(all_ticks, curr_tick_idx, fee_growth_global_x,
                           fee_growth_global_y, objs[i]), << >>, << >>)
    /\ before' = << >>
    /\ up_to_date' = up_to_date \cup {i}
    /\ budget > 0
    /\ budget' = budget - 1
    /\ UNCHANGED << curr_sqrt_price, curr_tick_idx, liquidity,
                    fee_growth_global_x, fee_growth_global_y, token_x_balance,
                    token_y_balance, ticks, all_ticks, positions, pc, call,
                    fees_charged, fees_withdrawn, reverted >>

\* ------------------------------------------------------------------------
\* Pair.swap, Pair.swap_x_for_y, Pair.swap_y_for_x, Pair.revert_swap
\* ------------------------------------------------------------------------
\* The Pair.ticks map
ActiveTicks == [t \in ticks |-> all_ticks[t]]

\* Every field a caller can read
Observable ==
    [curr_sqrt_price |-> curr_sqrt_price, curr_tick_idx |-> curr_tick_idx,
     liquidity |-> liquidity, fee_growth_global_x |-> fee_growth_global_x,
     fee_growth_global_y |-> fee_growth_global_y,
     token_x_balance |-> token_x_balance, token_y_balance |-> token_y_balance,
     ticks |-> ActiveTicks, all_ticks |-> all_ticks, positions |-> positions,
     objs |-> objs]

\* self.__dict__.copy() is a shallow copy: it holds the numbers, and the very
\* dict objects ticks, all_ticks and positions (with the very Tick objects in
\* them), which the swap never rebinds.  Restoring it restores the numbers.
OriginalState ==
    [curr_sqrt_price |-> curr_sqrt_price, curr_tick_idx |-> curr_tick_idx,
     liquidity |-> liquidity, fee_growth_global_x |-> fee_growth_global_x,
     fee_growth_global_y |-> fee_growth_global_y,
     token_x_balance |-> token_x_balance, token_y_balance |-> token_y_balance]

revert_swap(original_state) ==
    /\ curr_sqrt_price' = original_state.curr_sqrt_price
    /\ curr_tick_idx' = original_state.curr_tick_idx
    /\ liquidity' = original_state.liquidity
    /\ fee_growth_global_x' = original_state.fee_growth_global_x
    /\ fee_growth_global_y' = original_state.fee_growth_global_y
    /\ token_x_balance' = original_state.token_x_balance
    /\ token_y_balance' = original_state.token_y_balance

SwapArgs(cl) ==
    << cl.token_in_addr, cl.amount_in, cl.sqrt_price_limit, cl.simulate >>

\* The except clause of swap: restore, and return None
SwapFailed(cl) ==
    /\ revert_swap(cl.original_state)
    /\ pc' = "idle"
    /\ call' = NoCall
    /\ ret' = Ret("swap", SwapArgs(cl), "", TRUE, << >>, cl.crossed, cl.growth)
    /\ reverted' = TRUE
    /\ before' = << >>
    /\ up_to_date' = {}
    /\ UNCHANGED << ticks, positions, objs, fees_charged, fees_withdrawn >>

\* swap up to the while loop of swap_x_for_y / swap_y_for_x
SwapCall(token_in_addr, amount_in, sqrt_price_limit, simulate) ==
    LET x_for_y == token_in_addr = token_x
        found == find_next_tick(ticks, curr_tick_idx, ~x_for_y)
        cl == [token_in_addr |-> token_in_addr,
               amount_in |-> amount_in * AmtScale,
               sqrt_price_limit |-> sqrt_price_limit, simulate |-> simulate,
               amount_out |-> 0, amount_remaining |-> amount_in * AmtScale,
               next_tick |-> found.idx, crossed |-> << >>, fees |-> 0,
               passes |-> 0,
               growth |-> << << fee_growth_global_x, fee_growth_global_y >> >>,
               original_state |-> OriginalState, pre |-> Observable]
    IN /\ pc = "idle"
       /\ budget > 0
       /\ budget' = budget - 1
       /\ IF found.kind # "tick"
          THEN /\ SwapFailed(cl)
               /\ UNCHANGED all_ticks
          ELSE /\ pc' = IF x_for_y THEN "x_loop" ELSE "y_loop"
               /\ call' = cl
               /\ up_to_date' = {}
               /\ UNCHANGED << poolvars, ret, fees_charged, fees_withdrawn, reverted,
                               before >>

\* One pass of the while loop of swap_x_for_y (lines 684-741).  The result is
\* the state after the pass, or after the statement that raised.
swap_x_for_y_pass(cl) ==
    LET s0 == [exc |-> "", sqrt_price |-> curr_sqrt_price,
               tick_idx |-> curr_tick_idx, liquidity |-> liquidity,
               growth |-> fee_growth_global_x, all_ticks |-> all_ticks,
               amount_out |-> cl.amount_out,
               amount_remaining |-> cl.amount_remaining,
               next_tick |-> cl.next_tick, crossed |-> cl.crossed,
               fees |-> cl.fees]
        lower_tick_sqrt_price == tick_to_sqrt_price(cl.next_tick)[1]
        df == deduct_fees(cl.amount_remaining)
        \* 1/(1/p + net/L) = p*L / (L + net*p) = p - net*p*p / (L + net*p),
        \* in the form whose products stay within TLC's integers
        denom == PriceScale * AmtScale * liquidity
                 + df[1] * curr_sqrt_price
        updated_sqrt_price ==
            curr_sqrt_price
            - FDiv(df[1] * curr_sqrt_price * curr_sqrt_price, denom)
        within ==
            [s0 EXCEPT
               !.amount_out = @ + AmtScale *
                   TDiv((curr_sqrt_price - updated_sqrt_price) * liquidity,
                        PriceScale),
               !.amount_remaining = 0,
               !.growth = @ + GrowthOf(df[2], liquidity),
               !.fees = @ + df[2],
               !.sqrt_price = updated_sqrt_price,
               !.tick_idx = sqrt_price_to_tick(updated_sqrt_price)]
        amount_used_for_swap ==
            FDiv(PriceScale * liquidity * AmtScale
                   * (curr_sqrt_price - lower_tick_sqrt_price),
                 lower_tick_sqrt_price * curr_sqrt_price)
        af == add_fees(amount_used_for_swap)
        next == find_next_tick(ticks, cl.next_tick, FALSE)
        fgo == fee_growth_outside(ticks, all_ticks, cl.next_tick,
                                  fee_growth_global_x + GrowthOf(af[2], liquidity),
                                  fee_growth_global_y, cl.next_tick)
        c1 == [s0 EXCEPT
               !.amount_out = @ + AmtScale *
                   TDiv((curr_sqrt_price - lower_tick_sqrt_price) * liquidity,
                        PriceScale),
               !.amount_remaining = @ - af[1],
               !.growth = @ + GrowthOf(af[2], liquidity),
               !.fees = @ + af[2],
               !.tick_idx = cl.next_tick,
               !.crossed = Append(@, cl.next_tick)]
        c2 == [c1 EXCEPT
               !.next_tick = next.idx,
               !.sqrt_price = lower_tick_sqrt_price,
               !.liquidity = @ - all_ticks[cl.next_tick].liquidity_net]
        c3 == [c2 EXCEPT
               !.all_ticks[cl.next_tick].fee_growth_outside_x = fgo[1],
               !.all_ticks[cl.next_tick].fee_growth_outside_y = fgo[2]]
        crossing ==
            IF next.kind # "tick" THEN [c1 EXCEPT !.exc = next.kind]
            ELSE IF c2.liquidity = 0
                 THEN [c2 EXCEPT !.exc = "InsufficientLiquidity"]
            ELSE c3
        body ==
            IF liquidity = 0 \/ curr_sqrt_price = 0 \/ denom = 0
            THEN [s0 EXCEPT !.exc = "ZeroDivisionError"]
            ELSE IF updated_sqrt_price >= lower_tick_sqrt_price
                 THEN IF sqrt_price_to_tick_raises(updated_sqrt_price)
                      THEN [s0 EXCEPT !.exc = "UnboundLocalError"]
                      ELSE within
                 ELSE crossing
    IN IF body.exc = "" /\ body.sqrt_price <= cl.sqrt_price_limit
       THEN [body EXCEPT !.exc = "SlippageTooHigh"]
       ELSE body

\* One pass of the while loop of swap_y_for_x (lines 773-826)
swap_y_for_x_pass(cl) ==
    LET s0 == [exc |-> "", sqrt_price |-> curr_sqrt_price,
               tick_idx |-> curr_tick_idx, liquidity |-> liquidity,
               growth |-> fee_growth_global_y, all_ticks |-> all_ticks,
               amount_out |-> cl.amount_out,
               amount_remaining |-> cl.amount_remaining,
               next_tick |-> cl.next_tick, crossed |-> cl.crossed,
               fees |-> cl.fees]
        lower_tick_sqrt_price == tick_to_sqrt_price(cl.next_tick)[1]
        df == deduct_fees(cl.amount_remaining)
        updated_sqrt_price ==
            curr_sqrt_price + FDiv(df[1] * PriceScale, AmtScale * liquidity)
        within ==
            [s0 EXCEPT
               !.amount_out = @ + FDiv(PriceScale * liquidity * AmtScale
                                  * (updated_sqrt_price - curr_sqrt_price),
                                  curr_sqrt_price * updated_sqrt_price),
               !.amount_remaining = 0,
               !.growth = @ + GrowthOf(df[2], liquidity),
               !.fees = @ + df[2],
               !.sqrt_price = updated_sqrt_price,
               !.tick_idx = sqrt_price_to_tick(updated_sqrt_price)]
        amount_used_for_swap ==
            FDiv((lower_tick_sqrt_price - curr_sqrt_price) * liquidity
                   * AmtScale, PriceScale)
        af == add_fees(amount_used_for_swap)
        next == find_next_tick(ticks, cl.next_tick, TRUE)
        fgo == fee_growth_outside(ticks, all_ticks, cl.next_tick,
                                  fee_growth_global_x,
                                  fee_growth_global_y + GrowthOf(af[2], liquidity),
                                  cl.next_tick)
        c1 == [s0 EXCEPT
               !.amount_out = @ + FDiv(PriceScale * liquidity * AmtScale
                                  * (lower_tick_sqrt_price - curr_sqrt_price),
                                  curr_sqrt_price * lower_tick_sqrt_price),
               !.amount_remaining = @ - af[1],
               !.growth = @ + GrowthOf(af[2], liquidity),
               !.fees = @ + af[2],
               !.tick_idx = cl.next_tick,
               !.crossed = Append(@, cl.next_tick)]
        c2 == [c1 EXCEPT
               !.next_tick = next.idx,
               !.sqrt_price = lower_tick_sqrt_price,
               !.liquidity = @ + all_ticks[cl.next_tick].liquidity_net]
        c3 == [c2 EXCEPT
               !.all_ticks[cl.next_tick].fee_growth_outside_x = fgo[1],
               !.all_ticks[cl.next_tick].fee_growth_outside_y = fgo[2]]
        crossing ==
            IF next.kind # "tick" THEN [c1 EXCEPT !.exc = next.kind]
            ELSE IF c2.liquidity = 0
                 THEN [c2 EXCEPT !.exc = "InsufficientLiquidity"]
            ELSE c3
        body ==
            IF liquidity = 0 THEN [s0 EXCEPT !.exc = "ZeroDivisionError"]
            ELSE IF updated_sqrt_price <= lower_tick_sqrt_price
                 THEN IF curr_sqrt_price = 0 \/ updated_sqrt_price = 0
                      THEN [s0 EXCEPT !.exc = "ZeroDivisionError"]
                      ELSE IF sqrt_price_to_tick_raises(updated_sqrt_price)
                      THEN [s0 EXCEPT !.exc = "UnboundLocalError"]
                      ELSE within
                 ELSE IF curr_sqrt_price = 0
                      THEN [s0 EXCEPT !.exc = "ZeroDivisionError"]
                      ELSE crossing
    IN IF body.exc = "" /\ body.sqrt_price >= cl.sqrt_price_limit
       THEN [body EXCEPT !.exc = "SlippageTooHigh"]
       ELSE body

\* The state after a pass: the swap goes on, or it raised and swap's except
\* clause restores the snapshot (the Tick objects keep what the passes wrote)
AfterPass(s, x_for_y) ==
    /\ all_ticks' = s.all_ticks
    /\ IF s.exc # ""
       THEN SwapFailed(call)
       ELSE /\ curr_sqrt_price' = s.sqrt_price
            /\ curr_tick_idx' = s.tick_idx
            /\ liquidity' = s.liquidity
            /\ IF x_for_y
               THEN /\ fee_growth_global_x' = s.growth
                    /\ UNCHANGED fee_growth_global_y
               ELSE /\ fee_growth_global_y' = s.growth
                    /\ UNCHANGED fee_growth_global_x
            /\ call' = [call EXCEPT !.amount_out = s.amount_out,
                                    !.amount_remaining = s.amount_remaining,
                                    !.next_tick = s.next_tick,
                                    !.crossed = s.crossed,
                                    !.fees = s.fees,
                                    !.passes = @ + 1,
                                    !.growth = Append(@,
                                        IF x_for_y
                                        THEN << s.growth, fee_growth_global_y >>
                                        ELSE << fee_growth_global_x, s.growth >>)]
            /\ UNCHANGED << token_x_balance, token_y_balance, ticks,
                            positions, objs, pc, ret, fees_charged,
                            fees_withdrawn, reverted, before, up_to_date >>
    /\ UNCHANGED budget

SwapXForYPass ==
    /\ pc = "x_loop"
    /\ call.amount_remaining > 0
    /\ call.passes < MaxPasses
    /\ AfterPass(swap_x_for_y_pass(call), TRUE)

SwapYForXPass ==
    /\ pc = "y_loop"
    /\ call.amount_remaining > 0
    /\ call.passes < MaxPasses
    /\ AfterPass(swap_y_for_x_pass(call), FALSE)

\* The loop has ended: swap_*_for_* returns amount_out and swap finishes
\* (lines 637-647)
SwapReturn ==
    /\ pc \in {"x_loop", "y_loop"}
    /\ call.amount_remaining <= 0
    /\ IF call.simulate
       THEN /\ revert_swap(call.original_state)
            /\ UNCHANGED fees_charged
       ELSE /\ IF pc = "x_loop"
               THEN /\ token_x_balance' =
                          token_x_balance + call.amount_in * FeeK
                    /\ token_y_balance' =
                          token_y_balance - call.amount_out * FeeK
                    /\ fees_charged' = << fees_charged[1] + call.fees * FeeK,
                                         fees_charged[2] >>
               ELSE /\ token_y_balance' =
                          token_y_balance + call.amount_in * FeeK
                    /\ token_x_balance' =
                          token_x_balance - call.amount_out * FeeK
                    /\ fees_charged' = << fees_charged[1],
                                         fees_charged[2] + call.fees * FeeK >>
            /\ UNCHANGED << curr_sqrt_price, curr_tick_idx, liquidity,
                            fee_growth_global_x, fee_growth_global_y >>
    /\ pc' = "idle"
    /\ call' = NoCall
    /\ ret' = Ret("swap", SwapArgs(call), "", FALSE, << call.amount_out >>,
                  call.crossed, call.growth)
    /\ reverted' = (reverted \/ call.simulate)
    /\ before' = << >>
    /\ UNCHANGED << ticks, all_ticks, positions, objs, budget, fees_withdrawn,
                    up_to_date >>

\* ------------------------------------------------------------------------
\* Specification
\* ------------------------------------------------------------------------
\* A caller makes a call while no call is running
AddCall == \E a \in AddChoices : AddLiquidity(a[1], a[2], a[3], a[4])

RemoveCall == \E i \in 1..Len(objs), liq \in RemoveChoices : RemoveLiquidity(i, liq)

WithdrawCall == \E i \in 1..Len(objs) : WithdrawFees(i)

SwapStart ==
    \E sw \in SwapChoices, a \in AmountChoices : SwapCall(sw[1], a, sw[2], sw[3])

\* swap called with a token the pool does not hold
UnknownTokenSwapStart ==
    \E tok \in UnknownTokens, a \in AmountChoices : SwapCall(tok, a, 10000, FALSE)

Next ==
    \/ AddCall
    \/ RemoveCall
    \/ WithdrawCall
    \/ SwapStart
    \/ UnknownTokenSwapStart
    \/ SwapXForYPass
    \/ SwapYForXPass
    \/ SwapReturn

\* Every call the code accepts, the ones that break a precondition of the
\* interface included
Spec == Init /\ [][Next]_vars

\* The callers keep the preconditions of the interface: add_liquidity with
\* L > 0, aligned boundaries and lower < upper; remove_liquidity with
\* 0 < L <= position.liquidity; positions that are in the positions map
ValidAdd(a) ==
    /\ a[2] > 0
    /\ a[3] % tick_spacing = 0
    /\ a[4] % tick_spacing = 0
    /\ a[3] < a[4]

Live(i) ==
    /\ PositionKey(objs[i]) \in DOMAIN positions
    /\ positions[PositionKey(objs[i])] = i

ValidAddCall ==
    \E a \in AddChoices : ValidAdd(a) /\ AddLiquidity(a[1], a[2], a[3], a[4])

ValidRemoveCall ==
    \E i \in 1..Len(objs), liq \in RemoveChoices :
        /\ Live(i)
        /\ 0 < liq /\ liq <= objs[i].liquidity
        /\ RemoveLiquidity(i, liq)

ValidWithdrawCall == \E i \in 1..Len(objs) : Live(i) /\ WithdrawFees(i)

NextValid ==
    \/ ValidAddCall
    \/ ValidRemoveCall
    \/ ValidWithdrawCall
    \/ SwapStart
    \/ SwapXForYPass
    \/ SwapYForXPass
    \/ SwapReturn

InitValid == InitPool /\ budget = MaxValidOps

SpecValid == InitValid /\ [][NextValid]_vars

\* Liquidity providers only, each call within the preconditions the
\* interface states on its arguments (add_liquidity as above, remove_liquidity
\* with 0 < L <= position.liquidity), on any Position object a caller holds
HandleRemoveCall ==
    \E i \in 1..Len(objs), liq \in RemoveChoices :
        /\ 0 < liq /\ liq <= objs[i].liquidity
        /\ RemoveLiquidity(i, liq)

NextLP ==
    \/ ValidAddCall
    \/ HandleRemoveCall
    \/ WithdrawCall

InitLP == InitPool /\ budget = MaxLPOps

SpecLP == InitLP /\ [][NextLP]_vars

\* The valid calls, and holders of live positions calling collect_fees
ValidCollectCall == \E i \in 1..Len(objs) : Live(i) /\ CollectFees(i)

NextCollect ==
    \/ ValidAddCall
    \/ ValidRemoveCall
    \/ ValidWithdrawCall
    \/ ValidCollectCall
    \/ SwapStart
    \/ SwapXForYPass
    \/ SwapYForXPass
    \/ SwapReturn

SpecCollect == InitValid /\ [][NextCollect]_vars

\* The codec alone: tick_to_sqrt_price on a tick index, then
\* sqrt_price_to_tick on the first component of what it returned.  The tick
\* indices are the multiples of tick_spacing around the multiples of
\* std_increment_distance of the levels below, and the middle of each level.
CodecLevels == {-50, -49, -48, -2, -1, 0, 1, 2, 48, 49, 50}
CodecOffsets == {-200, -100, 0, 100, 200, 4500000}
CodecTicks == {k * std_increment_distance + j : k \in CodecLevels, j \in CodecOffsets}
RoundingErrors == {-1, 0, 1}

\* ret.value: the price whose square root is returned first, and the sign
\* of the rounding error of squaring that root
TickToSqrtPrice ==
    /\ pc = "idle"
    /\ ret.op = "init"
    /\ \E tick \in CodecTicks, err \in RoundingErrors :
          ret' = Ret("tick_to_sqrt_price", << tick >>, "", FALSE,
                     << tick_to_price(tick), err >>, << >>, << >>)
    /\ UNCHANGED << poolvars, pc, call, budget, fees_charged, fees_withdrawn,
                    reverted, before, up_to_date >>

SqrtPriceToTick ==
    /\ pc = "idle"
    /\ ret.op = "tick_to_sqrt_price"
    /\ \E r \in {sqrt_price_to_tick_exact(ret.value[1], ret.value[2])} :
          ret' = Ret("sqrt_price_to_tick", ret.args, r.exc, r.exc # "",
                     IF r.exc = "" THEN << r.tick >> ELSE << >>, << >>, << >>)
    /\ UNCHANGED << poolvars, pc, call, budget, fees_charged, fees_withdrawn,
                    reverted, before, up_to_date >>

NextCodec ==
    \/ TickToSqrtPrice
    \/ SqrtPriceToTick

InitCodec == InitPool /\ budget = 0

SpecCodec == InitCodec /\ [][NextCodec]_vars

\* find_next_tick alone, on every tick map over FindKeys and from every
\* tick index of FindFrom (keys of the map, and indices between and beyond)
FindKeys == {-396000, -199000, 0, 20100}
FindFrom == {-500000, -396000, -199000, 0, 100, 20100, 40400}

FindNextTick ==
    /\ pc = "idle"
    /\ ret.op = "init"
    /\ \E T \in SUBSET FindKeys, tick_idx \in FindFrom, higher \in BOOLEAN :
          \E r \in {find_next_tick(T, tick_idx, higher)} :
             ret' = Ret("find_next_tick", << T, tick_idx, higher >>,
                        IF r.kind = "IndexError" THEN "IndexError" ELSE "",
                        r.kind = "IndexError",
                        IF r.kind = "tick" THEN << r.idx >> ELSE << >>,
                        << >>, << >>)
    /\ UNCHANGED << poolvars, pc, call, budget, fees_charged, fees_withdrawn,
                    reverted, before, up_to_date >>

SpecFind == InitCodec /\ [][FindNextTick]_vars

\* tick_by_tick_spacing alone, on every whole precise tick within
\* MaxPrecise of 0
PreciseTicks == (0 - MaxPrecise)..MaxPrecise

TickByTickSpacing ==
    /\ pc = "idle"
    /\ ret.op = "init"
    /\ \E precise_tick \in PreciseTicks :
          ret' = Ret("tick_by_tick_spacing", << precise_tick >>, "", FALSE,
                     << tick_by_tick_spacing(precise_tick) >>, << >>, << >>)
    /\ UNCHANGED << poolvars, pc, call, budget, fees_charged, fees_withdrawn,
                    reverted, before, up_to_date >>

SpecSpacing == InitCodec /\ [][TickByTickSpacing]_vars

\* ------------------------------------------------------------------------
\* Properties
\* ------------------------------------------------------------------------
RECURSIVE SumOver(_, _)
SumOver(S, f) ==
    IF S = {} THEN 0
    ELSE LET k == CHOOSE j \in S : TRUE
         IN f[k] + SumOver(S \ {k}, f)

\* liquidity of the position stored under a key of the positions map
LiquidityOf == [k \in DOMAIN positions |-> objs[positions[k]].liquidity]

InRangeKeys ==
    {k \in DOMAIN positions : k[2] <= curr_tick_idx /\ curr_tick_idx < k[3]}

\* the observable state when the call that is running (or about to start) began
PreOf == IF pc = "idle" THEN Observable ELSE call.pre

\* this step ends a swap call (at once in SwapCall, in a pass, or in SwapReturn)
SwapEnded == pc' = "idle" /\ ret'.op = "swap" /\ (pc # "idle" \/ budget' # budget)

\* C1: after every operation pool.liquidity is the sum of the liquidity of
\* the positions of the map with lower <= curr_tick_idx < upper
C1_ActiveLiquidity ==
    pc = "idle" => liquidity = SumOver(InRangeKeys, LiquidityOf)

\* C2: a swap called with simulate=True leaves every observable field,
\* the Tick records of crossed ticks included, as before the call
C2_SimulateFrame ==
    [][(SwapEnded /\ ret'.args[4]) => Observable' = PreOf]_vars

\* C3: a non-simulated swap that fails leaves the whole pool state as before
\* the call, whatever the failure point
C3_FailedSwapFrame ==
    [][(SwapEnded /\ ret'.failed /\ ~ret'.args[4]) => Observable' = PreOf]_vars

\* C4: a swap that fails re-raises the error to its caller; it never
\* returns normally
C4_FailureSurfaces ==
    (ret.op = "swap" /\ ret.failed) => ret.exc # ""

\* fees credited to the position stored under a key of the positions map:
\* its uncollected fees_x/y once settled (what collect_fees would leave)
CreditedOf(tok) ==
    [k \in DOMAIN positions |->
        LET settled == collect_fees(all_ticks, curr_tick_idx,
                                    fee_growth_global_x, fee_growth_global_y,
                                    objs[positions[k]])
        IN IF tok = 1 THEN settled.fees_x ELSE settled.fees_y]

Credited(tok) == SumOver(DOMAIN positions, CreditedOf(tok)) + fees_withdrawn[tok]

\* C5: fee conservation: per token, the fees credited to the positions
\* (settled uncollected fees plus everything withdraw_fees returned) equal
\* the fees the committed swaps charged, as long as every swap so far was
\* committed
C5_FeeConservation ==
    (pc = "idle" /\ ~reverted) => /\ Credited(1) = fees_charged[1]
                                  /\ Credited(2) = fees_charged[2]

\* C6: fee_growth_global_x/y never decrease: over the start of a committed
\* swap and each of its passes (within-cell or crossing) the values are
\* non-decreasing (no other operation writes them)
C6_MonotoneGlobals ==
    (ret.op = "swap" /\ ~ret.failed /\ ~ret.args[4])
        => \A j \in 1..(Len(ret.growth) - 1) :
              /\ ret.growth[j + 1][1] >= ret.growth[j][1]
              /\ ret.growth[j + 1][2] >= ret.growth[j][2]

\* C7: every tick of the active tick map has liquidity_gross >= |liquidity_net|
C7_GrossBoundsNet ==
    \A t \in ticks :
        all_ticks[t].liquidity_gross >= Abs(all_ticks[t].liquidity_net)

\* net liquidity the positions of the map put on a boundary t
NetOf(t) ==
    SumOver({k \in DOMAIN positions : k[2] = t}, LiquidityOf)
    - SumOver({k \in DOMAIN positions : k[3] = t}, LiquidityOf)

\* C8: every active tick's liquidity_net is the liquidity of the positions
\* whose lower boundary it is minus that of the positions whose upper
\* boundary it is
C8_NetCrossing ==
    \A t \in ticks : all_ticks[t].liquidity_net = NetOf(t)

\* C9: every initialized tick index is a multiple of tick_spacing
C9_TickQuantization ==
    \A t \in ticks \cup DOMAIN all_ticks : t % tick_spacing = 0

\* the call that has just returned broke a precondition on its arguments
InvalidCall ==
    /\ pc = "idle"
    /\ budget' # budget
    /\ \/ ret'.op = "add_liquidity" /\ ~ValidAdd(ret'.args)
       \/ /\ ret'.op = "remove_liquidity"
          /\ \/ ret'.args[2] <= 0
             \/ ret'.args[2] > objs[ret'.args[1]].liquidity

\* C10: add_liquidity with L <= 0, an unaligned boundary or lower >= upper,
\* and remove_liquidity with L <= 0 or L > position.liquidity, are rejected
\* with InvalidArgument and leave the pool as it was; no position's liquidity
\* becomes negative
C10_InvalidRejected ==
    [][/\ InvalidCall => (ret'.exc = "InvalidArgument" /\ Observable' = Observable)
       /\ \A i \in 1..Len(objs') : objs'[i].liquidity >= 0]_vars

\* this step is a whole call of add_liquidity, remove_liquidity or
\* withdraw_fees
LiquidityCall ==
    /\ pc = "idle"
    /\ pc' = "idle"
    /\ budget' # budget
    /\ ret'.op \in {"add_liquidity", "remove_liquidity", "withdraw_fees"}

\* C11: add_liquidity, remove_liquidity and withdraw_fees are atomic: a call
\* that ends in an error leaves pool.liquidity, the tick maps, the positions
\* map, the position records and the token balances as before the call
C11_AtomicCalls ==
    [][(LiquidityCall /\ ret'.failed) => Observable' = Observable]_vars

\* the liquidity the Position object j holds once the call that has just
\* returned has taken its amount (remove_liquidity(j, L) takes L from j)
LiquidityLeft(j) ==
    IF ret'.op = "remove_liquidity" /\ ret'.args[1] = j
    THEN objs[j].liquidity - ret'.args[2]
    ELSE objs[j].liquidity

\* C12: a position leaves the positions map only when it holds no liquidity
\* and no fees, materialized (fees_x/fees_y) or accrued since its last
\* settlement
C12_DeleteOnlyEmpty ==
    [][\A k \in DOMAIN positions \ DOMAIN positions' :
          /\ LiquidityLeft(positions[k]) = 0
          /\ objs'[positions[k]].fees_x = 0
          /\ objs'[positions[k]].fees_y = 0
          /\ get_fees(all_ticks, curr_tick_idx, fee_growth_global_x,
                      fee_growth_global_y, objs[positions[k]]) = << 0, 0 >>
             \/ ret'.op = "withdraw_fees"]_vars

\* the view after remove_liquidity(pos, L) on the position and with the
\* amount of the add_liquidity call that has just returned
ViewAfterRemove(s) ==
    IF s.exc # "" THEN << s.exc >>
    ELSE PoolView(s.liquidity, s.ticks, s.all_ticks, s.positions, s.objs,
                  s.bx, s.by)

RemoveOfLastAdd ==
    ViewAfterRemove(
        remove_liquidity(positions[<< ret.args[1], ret.args[3], ret.args[4] >>],
                         ret.args[2]))

\* C13: add_liquidity(o, L, l, u) with valid arguments immediately followed
\* by remove_liquidity(pos, L) returns the pool to the state before the add
\* (a position the add created is deleted again)
C13_AddRemoveRoundTrip ==
    (pc = "idle" /\ ret.op = "add_liquidity" /\ ValidAdd(ret.args))
        => RemoveOfLastAdd = before

C15_ZeroSwap ==
    [][(SwapEnded /\ ret'.args[2] = 0)
          => (~ret'.failed /\ ret'.value = << 0 >> /\ Observable' = PreOf)]_vars

\* this step is a remove_liquidity call that returned and left no position
\* of the map with liquidity over curr_tick_idx
RangeDrained ==
    /\ LiquidityCall
    /\ ret'.op = "remove_liquidity"
    /\ ~ret'.failed
    /\ \A k \in DOMAIN positions' :
          (k[2] <= curr_tick_idx /\ curr_tick_idx < k[3])
              => objs'[positions'[k]].liquidity = 0

\* C16: once the liquidity of every position whose range holds curr_tick_idx
\* is removed pool.liquidity is 0, and a swap of a positive amount that
\* follows a remove_liquidity with pool.liquidity at 0 fails with
\* InsufficientLiquidity, whatever positions and active ticks remain
C16_DrainedPool ==
    [][/\ RangeDrained => liquidity' = 0
       /\ (/\ SwapEnded
           /\ ret.op = "remove_liquidity" /\ ~ret.failed
           /\ PreOf.liquidity = 0
           /\ ret'.args[2] > 0)
             => ret'.exc = "InsufficientLiquidity"]_vars

\* C17: for every tick index t that is a multiple of tick_spacing,
\* sqrt_price_to_tick of the first component of tick_to_sqrt_price(t)
\* returns t
C17_CodecRoundTrip ==
    ret.op = "sqrt_price_to_tick"
        => (ret.exc = "" /\ ret.value = << ret.args[1] >>)

\* the round trip strictly within the 49 price levels the loops of
\* sqrt_price_to_tick can find (at +-49 levels it depends on the rounding)
RoundTripWithinLevels ==
    (ret.op = "sqrt_price_to_tick"
       /\ Abs(ret.args[1]) < 49 * std_increment_distance)
        => (ret.exc = "" /\ ret.value = << ret.args[1] >>)

\* C18: a swap whose token_in_addr is neither token_x nor token_y is
\* rejected with InvalidArgument and leaves every observable field as
\* before the call (it does not run as a swap of either token)
C18_UnknownTokenRejected ==
    [][(SwapEnded /\ ret'.args[1] \notin {token_x, token_y})
          => (ret'.exc = "InvalidArgument" /\ Observable' = PreOf)]_vars

\* the active ticks beyond t in a direction
Beyond(T, t, higher) == {k \in T : IF higher THEN k > t ELSE k < t}

\* C19: find_next(t, up) is the smallest active tick strictly greater than
\* t, find_next(t, down) the largest active tick strictly less than t, and
\* the result is none when there is no such tick, whether or not t is an
\* active tick itself
C19_FindNextStrict ==
    ret.op = "find_next_tick" =>
        LET B == Beyond(ret.args[1], ret.args[2], ret.args[3])
        IN /\ ret.exc = ""
           /\ IF B = {} THEN ret.value = << >>
              ELSE /\ ret.value # << >>
                   /\ ret.value[1] \in B
                   /\ \A k \in B : IF ret.args[3] THEN ret.value[1] <= k
                                                   ELSE ret.value[1] >= k

\* this step ends a committed swap that moved the price exactly onto the
\* sqrt price of the active tick t
ExactHit(t) ==
    /\ SwapEnded
    /\ ~ret'.failed
    /\ ~ret'.args[4]
    /\ curr_sqrt_price' # PreOf.curr_sqrt_price
    /\ tick_to_sqrt_price(t)[1] = curr_sqrt_price'

\* the liquidity_net of the ticks a swap crossed, summed
NetCrossed(crossed) ==
    SumOver(1..Len(crossed),
            [i \in 1..Len(crossed) |-> all_ticks[crossed[i]].liquidity_net])

\* C20: a swap that moves the price exactly to the sqrt price of a boundary
\* tick crosses that tick: it is the last tick crossed, curr_tick_idx is
\* that tick, and pool.liquidity has changed by the liquidity_net of the
\* ticks crossed (minus going down, plus going up)
C20_ExactHitCrosses ==
    [][\A t \in ticks :
          ExactHit(t) =>
             /\ ret'.crossed # << >>
             /\ ret'.crossed[Len(ret'.crossed)] = t
             /\ curr_tick_idx' = t
             /\ liquidity' = IF ret'.args[1] = token_x
                             THEN PreOf.liquidity - NetCrossed(ret'.crossed)
                             ELSE PreOf.liquidity + NetCrossed(ret'.crossed)]_vars

\* this step is an iteration of the loop of a swap that goes on (or ends the
\* loop normally)
Iteration == pc \in {"x_loop", "y_loop"} /\ pc' = pc /\ call' # call

\* C21: within one swap the traversal is monotone in the direction of the
\* swap: going down (x for y) curr_sqrt_price and curr_tick_idx never
\* increase from one iteration to the next and the target tick of every
\* iteration is strictly below the current tick; going up (y for x) they
\* never decrease and the target is strictly above; amount_remaining never
\* grows
C21_MonotoneTraversal ==
    [][/\ (pc = "idle" /\ pc' = "x_loop") => call'.next_tick < curr_tick_idx'
       /\ (pc = "idle" /\ pc' = "y_loop") => call'.next_tick > curr_tick_idx'
       /\ Iteration => call'.amount_remaining <= call.amount_remaining
       /\ (Iteration /\ pc = "x_loop") =>
             /\ curr_sqrt_price' <= curr_sqrt_price
             /\ curr_tick_idx' <= curr_tick_idx
             /\ call'.amount_remaining > 0 => call'.next_tick < curr_tick_idx'
       /\ (Iteration /\ pc = "y_loop") =>
             /\ curr_sqrt_price' >= curr_sqrt_price
             /\ curr_tick_idx' >= curr_tick_idx
             /\ call'.amount_remaining > 0 => call'.next_tick > curr_tick_idx']_vars

\* the tick the iteration of this step crossed
CrossedTick == call'.crossed[Len(call'.crossed)]

\* C22: an iteration that crosses tick t sets exactly that tick's
\* fee_growth_outside_x/y to the current global minus what it held, changes
\* no other tick, and changes the active liquidity by -t.liquidity_net going
\* down (x for y) and by +t.liquidity_net going up; an iteration that
\* crosses no tick changes neither
C22_CrossingFlipsOutside ==
    [][Iteration =>
          IF Len(call'.crossed) > Len(call.crossed)
          THEN /\ all_ticks' =
                     [all_ticks EXCEPT
                        ![CrossedTick].fee_growth_outside_x =
                            fee_growth_global_x' - @,
                        ![CrossedTick].fee_growth_outside_y =
                            fee_growth_global_y' - @]
               /\ liquidity' = IF pc = "x_loop"
                               THEN liquidity - all_ticks[CrossedTick].liquidity_net
                               ELSE liquidity + all_ticks[CrossedTick].liquidity_net
          ELSE all_ticks' = all_ticks /\ liquidity' = liquidity]_vars

\* a swap going down has crossed one tick, whose outside growth is now the
\* fee growth the swap has produced, and goes on with the liquidity left
C22_Witness ==
    /\ pc = "x_loop"
    /\ Len(call.crossed) = 1
    /\ fee_growth_global_x > 0
    /\ all_ticks[call.crossed[1]].fee_growth_outside_x = fee_growth_global_x
    /\ all_ticks[call.crossed[1]].liquidity_net > 0
    /\ liquidity = call.pre.liquidity - all_ticks[call.crossed[1]].liquidity_net
    /\ liquidity > 0

\* C23: after every remove_liquidity(position, L) that returns, the
\* liquidity of the Position record is exactly L less than before the call,
\* also when the call removes the whole position
C23_RemoveSubtracts ==
    [][(LiquidityCall /\ ret'.op = "remove_liquidity" /\ ~ret'.failed)
          => objs'[ret'.args[1]].liquidity
                = objs[ret'.args[1]].liquidity - ret'.args[2]]_vars

\* C24: every active tick has liquidity_gross above 0 (a tick whose
\* liquidity_gross reaches 0 is dropped from the active map) and is a key of
\* all_ticks
C24_ActiveTicksHeld ==
    \A t \in ticks : t \in DOMAIN all_ticks /\ all_ticks[t].liquidity_gross > 0

\* the steps: all_ticks never loses a key, and a tick leaves the active map
\* only with liquidity_gross 0
TicksRetained ==
    [][/\ DOMAIN all_ticks \subseteq DOMAIN all_ticks'
       /\ \A t \in ticks \ ticks' : all_ticks'[t].liquidity_gross = 0]_vars

\* add_liquidity on a key that was added before and holds no liquidity now:
\* the key is in the positions map with liquidity 0, or only a Position
\* object of an earlier add is left of it
ReAdd ==
    /\ LiquidityCall
    /\ ret'.op = "add_liquidity"
    /\ ValidAdd(ret'.args)
    /\ LET key == << ret'.args[1], ret'.args[3], ret'.args[4] >>
       IN /\ \E i \in 1..Len(objs) : PositionKey(objs[i]) = key
          /\ key \in DOMAIN positions => objs[positions[key]].liquidity = 0

ReAdded == objs'[positions'[<< ret'.args[1], ret'.args[3], ret'.args[4] >>]]

InsideNow(position) ==
    fee_within_range(curr_tick_idx, fee_growth_global_x, fee_growth_global_y,
                     all_ticks[position.lower_tick], all_ticks[position.upper_tick])

\* C25: when a key that was fully removed is added again, the position's
\* fee_growth_inside baseline is the fee growth within its range at that
\* time, it has nothing pending, and the fees it holds are the fees the key
\* held before the add (none for a new Position object): the new liquidity
\* earns nothing from the swaps before it
C25_ReAddBaseline ==
    [][ReAdd =>
          LET key == << ret'.args[1], ret'.args[3], ret'.args[4] >>
          IN /\ << ReAdded.fee_growth_inside_x, ReAdded.fee_growth_inside_y >>
                   = fee_within_range(curr_tick_idx', fee_growth_global_x',
                                      fee_growth_global_y',
                                      all_ticks'[key[2]], all_ticks'[key[3]])
             /\ get_fees(all_ticks', curr_tick_idx', fee_growth_global_x',
                         fee_growth_global_y', ReAdded) = << 0, 0 >>
             /\ ReAdded.liquidity = ret'.args[2]
             /\ IF key \in DOMAIN positions
                THEN /\ ReAdded.fees_x = objs[positions[key]].fees_x
                     /\ ReAdded.fees_y = objs[positions[key]].fees_y
                ELSE ReAdded.fees_x = 0 /\ ReAdded.fees_y = 0]_vars

\* a live position re-added after a swap paid it fees and its removal dropped
\* both boundary ticks from the active map
C25_Witness ==
    /\ pc = "idle"
    /\ ret.op = "add_liquidity"
    /\ before # << >>
    /\ LET key == << ret.args[1], ret.args[3], ret.args[4] >>
       IN /\ key \in DOMAIN before.positions
          /\ before.positions[key] = 0
          /\ key[2] \notin DOMAIN before.ticks
          /\ key[3] \notin DOMAIN before.ticks
          /\ objs[positions[key]].fees_x + objs[positions[key]].fees_y > 0
          /\ objs[positions[key]].liquidity > 0
          /\ << objs[positions[key]].fee_growth_inside_x,
                objs[positions[key]].fee_growth_inside_y >>
                = InsideNow(objs[positions[key]])

\* C26: tick_by_tick_spacing(precise) is the greatest multiple of
\* tick_spacing that is <= precise, for negative precise ticks too
C26_RoundsTowardMinusInfinity ==
    ret.op = "tick_by_tick_spacing" =>
        /\ ret.value[1] % tick_spacing = 0
        /\ ret.value[1] <= ret.args[1]
        /\ ret.args[1] < ret.value[1] + tick_spacing

\* the sqrt price p_c moved into [p_a, p_b]
Clamp(p_c, p_a, p_b) == IF p_c < p_a THEN p_a ELSE IF p_c > p_b THEN p_b ELSE p_c

\* the token amounts (in AmtScale) of a liquidity over a range, at the
\* current sqrt price clamped into the range
ClampedTokens(liq, lower_tick_idx, upper_tick_idx) ==
    LET p_b == tick_to_sqrt_price(upper_tick_idx)[1]
        p_a == tick_to_sqrt_price(lower_tick_idx)[1]
        p_c == Clamp(curr_sqrt_price, p_a, p_b)
    IN << FDiv(liq * (p_b - p_c) * PriceScale * AmtScale, p_b * p_c),
          FDiv(liq * (p_c - p_a) * AmtScale, PriceScale) >>

\* the range and the liquidity of the add_liquidity or remove_liquidity call
\* of this step
MovedRange ==
    IF ret'.op = "add_liquidity" THEN << ret'.args[2], ret'.args[3], ret'.args[4] >>
    ELSE << ret'.args[2], objs[ret'.args[1]].lower_tick, objs[ret'.args[1]].upper_tick >>

\* C27: add_liquidity raises and remove_liquidity lowers the token balances
\* by the token amounts of the liquidity at the current sqrt price clamped
\* into the range: with the price at or below the lower edge no token y and
\* L * (pb - pa) / (pb * pa) of token x, with the price at or above the
\* upper edge no token x and L * (pb - pa) of token y
C27_ClampedTokens ==
    [][(LiquidityCall /\ ret'.op # "withdraw_fees" /\ ~ret'.failed) =>
          LET delta == ClampedTokens(MovedRange[1], MovedRange[2], MovedRange[3])
              sign == IF ret'.op = "add_liquidity" THEN 1 ELSE -1
          IN /\ token_x_balance' = token_x_balance + sign * delta[1] * FeeK
             /\ token_y_balance' = token_y_balance + sign * delta[2] * FeeK]_vars

\* the active ticks at or beyond the tick the running swap started from, in
\* its direction
TicksAhead ==
    IF pc = "x_loop" THEN {t \in ticks : t <= call.pre.curr_tick_idx}
    ELSE {t \in ticks : t >= call.pre.curr_tick_idx}

\* C28: a swap crosses each active tick at most once, so the iterations of
\* its loop are at most the active ticks in its direction plus one
C28_BoundedIterations ==
    pc \in {"x_loop", "y_loop"} =>
        /\ \A m, n \in 1..Len(call.crossed) :
              call.crossed[m] = call.crossed[n] => m = n
        /\ call.passes <= Cardinality(TicksAhead) + 1

====
